---- MODULE Spec2Model ----
(***************************************************************************)
(* A model of ClaudeHookMaster: HookParser (src/src/hook_parser.py) and   *)
(* the command line program around it (src/src/main.py).                   *)
(*                                                                         *)
(* Spec is a caller of parse on every sampled text; Repeat is a caller     *)
(* that calls again and compares; Main is one run of the process: stdin,   *)
(* the --log file, stdout, stderr and the exit status.                     *)
(*                                                                         *)
(* A raw input text is a sequence of JSON tokens; json_loads is the        *)
(* recursive-descent decoder of Python's json module (including its        *)
(* acceptance of NaN, Infinity and -Infinity); a decoded value is a tagged *)
(* record carrying the Python type name; Python strings are TLA+ strings,  *)
(* sliced with SubSeq and joined with \o.  An exception is a value: every  *)
(* operator that can raise returns [exc, msg, ...] and parse's try block   *)
(* routes it to the except clause Python would select.                     *)
(***************************************************************************)
EXTENDS Integers, Sequences, FiniteSets, TLC

VARIABLES
    hook_handlers,  \* HookParser.hook_handlers: kind -> handler name
    pc,             \* "idle" | "called" | "returned": where the caller is
    input_data,     \* the raw text handed to parse (a token sequence)
    result,         \* what the last call of parse produced
    instance,       \* which HookParser instance hook_handlers belongs to
    earlier,        \* a call made before, kept by the caller for comparison
    mpc,            \* main: the statement the process is at
    argv,           \* main: the parsed command line (args)
    stdin,          \* main: what sys.stdin.read() will yield
    raw_input,      \* main: raw_input
    log_dir,        \* whether the directory of the --log file exists
    log_file,       \* the file named by --log: whether it exists, its text
    old_log,        \* the log file as it was when the process started
    old_dir,        \* whether its directory existed when the process started
    stdout,         \* the text printed to stdout
    stderr,         \* the text printed to stderr
    status          \* the exit status of the process (-1 while it runs)

parser_vars  == <<hook_handlers, pc, input_data, result>>
history_vars == <<instance, earlier>>
main_vars    == <<mpc, argv, stdin, raw_input, log_dir, log_file, old_log,
                  old_dir, stdout, stderr, status>>
vars == <<parser_vars, history_vars, main_vars>>

(***************************************************************************)
(* Bounds of the model and constants of the program.                       *)
(***************************************************************************)
\* How far past a truncation limit the sampled string lengths go.
MaxOver == 2

\* prompt / response previews keep 100 characters (hook_parser.py:83).
PromptLimit == 100
\* chunk previews keep 50 characters (hook_parser.py:101).
ChunkLimit == 50
\* session ids are cut to 8 characters (hook_parser.py:124).
SessionIdLen == 8

Min(a, b) == IF a < b THEN a ELSE b

(***************************************************************************)
(* Python values.  t is the Python type name, s the text of a str (or the  *)
(* repr of a float), n the number of an int (1/0 for a bool), c the items  *)
(* of a list or the (key, value) pairs of a dict, in insertion order.      *)
(***************************************************************************)
VStr(x)   == [t |-> "str",      s |-> x,  n |-> 0, c |-> <<>>]
VInt(k)  == [t |-> "int",      s |-> "", n |-> k, c |-> <<>>]
VFloat(r) == [t |-> "float",    s |-> r,  n |-> 0, c |-> <<>>]
VBool(b) == [t |-> "bool",     s |-> "", n |-> IF b THEN 1 ELSE 0, c |-> <<>>]
None     == [t |-> "NoneType", s |-> "", n |-> 0, c |-> <<>>]
VList(xs) == [t |-> "list",     s |-> "", n |-> 0, c |-> xs]
VDict(ps) == [t |-> "dict",     s |-> "", n |-> 0, c |-> ps]
Pair(key, val) == [k |-> key, v |-> val]
EmptyDict == VDict(<<>>)

\* bool(v): Python's truth value of a decoded JSON value.
Truthy(v) ==
    CASE v.t = "str"      -> v.s # ""
      [] v.t = "int"      -> v.n # 0
      [] v.t = "float"    -> v.s \notin {"0.0", "-0.0"}
      [] v.t = "bool"     -> v.n = 1
      [] v.t = "NoneType" -> FALSE
      [] OTHER            -> Len(v.c) > 0

\* dict.__contains__ and dict.get(key, default) on a dict value.
HasKey(d, key) == \E i \in 1..Len(d.c) : d.c[i].k = key
get(d, key, default) ==
    IF HasKey(d, key)
    THEN d.c[CHOOSE i \in 1..Len(d.c) : d.c[i].k = key].v
    ELSE default

\* d[key] = val while decoding: a repeated key keeps its place, the last value wins.
DictSet(ps, key, val) ==
    IF \E i \in 1..Len(ps) : ps[i].k = key
    THEN [i \in 1..Len(ps) |-> IF ps[i].k = key THEN Pair(key, val) ELSE ps[i]]
    ELSE Append(ps, Pair(key, val))

(***************************************************************************)
(* str(v) and repr(v), as an f-string field renders a value.               *)
(***************************************************************************)
Digits == <<"0", "1", "2", "3", "4", "5", "6", "7", "8", "9">>

RECURSIVE NatToStr(_)
NatToStr(k) ==
    IF k < 10 THEN Digits[k + 1]
    ELSE NatToStr(k \div 10) \o Digits[(k % 10) + 1]

IntToStr(k) == IF k < 0 THEN "-" \o NatToStr(0 - k) ELSE NatToStr(k)

\* repr of a str: quoted, a newline escaped (the sampled texts hold no quote
\* or backslash).
RECURSIVE EscapeNewlines(_)
EscapeNewlines(s) ==
    IF Len(s) = 0 THEN ""
    ELSE IF Len(s) = 1 THEN (IF s = "\n" THEN "\\n" ELSE s)
    ELSE EscapeNewlines(SubSeq(s, 1, Len(s) \div 2))
         \o EscapeNewlines(SubSeq(s, (Len(s) \div 2) + 1, Len(s)))

RECURSIVE PyRepr(_)
RECURSIVE JoinRepr(_, _)
RECURSIVE JoinItems(_, _)
JoinRepr(xs, i) ==
    IF i > Len(xs) THEN ""
    ELSE (IF i > 1 THEN ", " ELSE "") \o PyRepr(xs[i]) \o JoinRepr(xs, i + 1)
JoinItems(ps, i) ==
    IF i > Len(ps) THEN ""
    ELSE (IF i > 1 THEN ", " ELSE "") \o "'" \o EscapeNewlines(ps[i].k) \o "': "
         \o PyRepr(ps[i].v) \o JoinItems(ps, i + 1)
PyRepr(v) ==
    CASE v.t = "str"      -> "'" \o EscapeNewlines(v.s) \o "'"
      [] v.t = "int"      -> IntToStr(v.n)
      [] v.t = "float"    -> v.s
      [] v.t = "bool"     -> IF v.n = 1 THEN "True" ELSE "False"
      [] v.t = "NoneType" -> "None"
      [] v.t = "list"     -> "[" \o JoinRepr(v.c, 1) \o "]"
      [] OTHER            -> "{" \o JoinItems(v.c, 1) \o "}"

PyStr(v) == IF v.t = "str" THEN v.s ELSE PyRepr(v)

(***************************************************************************)
(* Raw text.  A text is a sequence of JSON tokens [k, s, n]: k is the      *)
(* punctuation mark itself, or "string" (s its decoded content), "int" (n  *)
(* its value), a literal name, "ctrlstring" (a string literal holding a    *)
(* raw control character) or "bad" (any other fragment, such as a bare     *)
(* word or a single-quoted string).  Positions count tokens.               *)
(***************************************************************************)
Tok(kind)     == [k |-> kind,     s |-> "", n |-> 0]
TString(x)    == [k |-> "string", s |-> x,  n |-> 0]
TInt(i)       == [k |-> "int",    s |-> "", n |-> i]
TBad(x)       == [k |-> "bad",    s |-> x,  n |-> 0]

\* s[idx:idx + 1] of the decoder: the token kind at idx, "" past the end.
TokAt(toks, idx) == IF idx >= 1 /\ idx <= Len(toks) THEN toks[idx].k ELSE ""

Decoded(value, nxt) == [ok |-> TRUE, val |-> value, next |-> nxt, msg |-> ""]
\* JSONDecodeError(msg, doc, pos): str(e) is "<msg>: line 1 column <pos> (char <pos - 1>)".
JSONDecodeError(m, pos) ==
    [ok |-> FALSE, val |-> None, next |-> pos,
     msg |-> m \o ": line 1 column " \o IntToStr(pos) \o " (char " \o IntToStr(pos - 1) \o ")"]

RECURSIVE scan_once(_, _)
RECURSIVE JSONObject(_, _, _)
RECURSIVE JSONArray(_, _, _)

\* json.decoder.JSONObject from a key at idx on, pairs decoded so far.
JSONObject(toks, idx, pairs) ==
    IF TokAt(toks, idx) = "ctrlstring"
    THEN JSONDecodeError("Invalid control character at", idx)
    ELSE IF TokAt(toks, idx + 1) # ":"
    THEN JSONDecodeError("Expecting ':' delimiter", idx + 1)
    ELSE LET r == scan_once(toks, idx + 2) IN
         IF ~r.ok THEN r
         ELSE LET ps == DictSet(pairs, toks[idx].s, r.val)
                  k  == TokAt(toks, r.next)
              IN  IF k = "}" THEN Decoded(VDict(ps), r.next + 1)
                  ELSE IF k # ","
                  THEN JSONDecodeError("Expecting ',' delimiter", r.next)
                  ELSE IF TokAt(toks, r.next + 1) \notin {"string", "ctrlstring"}
                  THEN JSONDecodeError(
                           "Expecting property name enclosed in double quotes",
                           r.next + 1)
                  ELSE JSONObject(toks, r.next + 1, ps)

\* json.decoder.JSONArray from the item at idx on, items decoded so far.
JSONArray(toks, idx, items) ==
    LET r == scan_once(toks, idx) IN
    IF ~r.ok THEN r
    ELSE LET xs == Append(items, r.val)
             k  == TokAt(toks, r.next)
         IN  IF k = "]" THEN Decoded(VList(xs), r.next + 1)
             ELSE IF k # ","
             THEN JSONDecodeError("Expecting ',' delimiter", r.next)
             ELSE JSONArray(toks, r.next + 1, xs)

\* json.scanner's scan_once; its StopIteration becomes "Expecting value" in
\* every caller.
scan_once(toks, idx) ==
    LET k == TokAt(toks, idx) IN
    CASE k = "string"     -> Decoded(VStr(toks[idx].s), idx + 1)
      [] k = "ctrlstring" -> JSONDecodeError("Invalid control character at", idx)
      [] k = "{" ->
            IF TokAt(toks, idx + 1) = "}" THEN Decoded(EmptyDict, idx + 2)
            ELSE IF TokAt(toks, idx + 1) \notin {"string", "ctrlstring"}
            THEN JSONDecodeError(
                     "Expecting property name enclosed in double quotes", idx + 1)
            ELSE JSONObject(toks, idx + 1, <<>>)
      [] k = "[" ->
            IF TokAt(toks, idx + 1) = "]" THEN Decoded(VList(<<>>), idx + 2)
            ELSE JSONArray(toks, idx + 1, <<>>)
      [] k = "null"      -> Decoded(None, idx + 1)
      [] k = "true"      -> Decoded(VBool(TRUE), idx + 1)
      [] k = "false"     -> Decoded(VBool(FALSE), idx + 1)
      [] k = "int"       -> Decoded(VInt(toks[idx].n), idx + 1)
      [] k = "NaN"       -> Decoded(VFloat("nan"), idx + 1)
      [] k = "Infinity"  -> Decoded(VFloat("inf"), idx + 1)
      [] k = "-Infinity" -> Decoded(VFloat("-inf"), idx + 1)
      [] OTHER           -> JSONDecodeError("Expecting value", idx)

\* json.loads(input_data): JSONDecoder.decode.
json_loads(toks) ==
    LET r == scan_once(toks, 1) IN
    IF ~r.ok THEN r
    ELSE IF r.next # Len(toks) + 1 THEN JSONDecodeError("Extra data", r.next)
    ELSE r

\* json.dumps(v), as the tests and the demo build their inputs.
RECURSIVE dumps(_)
RECURSIVE DumpItems(_, _)
RECURSIVE DumpPairs(_, _)
DumpItems(xs, i) ==
    IF i > Len(xs) THEN <<>>
    ELSE (IF i > 1 THEN <<Tok(",")>> ELSE <<>>) \o dumps(xs[i]) \o DumpItems(xs, i + 1)
DumpPairs(ps, i) ==
    IF i > Len(ps) THEN <<>>
    ELSE (IF i > 1 THEN <<Tok(",")>> ELSE <<>>)
         \o <<TString(ps[i].k), Tok(":")>> \o dumps(ps[i].v) \o DumpPairs(ps, i + 1)
dumps(v) ==
    CASE v.t = "str"      -> <<TString(v.s)>>
      [] v.t = "int"      -> <<TInt(v.n)>>
      [] v.t = "float"    ->
            <<Tok(CASE v.s = "nan" -> "NaN" [] v.s = "inf" -> "Infinity"
                    [] OTHER -> "-Infinity")>>
      [] v.t = "bool"     -> <<Tok(IF v.n = 1 THEN "true" ELSE "false")>>
      [] v.t = "NoneType" -> <<Tok("null")>>
      [] v.t = "list"     -> <<Tok("[")>> \o DumpItems(v.c, 1) \o <<Tok("]")>>
      [] OTHER            -> <<Tok("{")>> \o DumpPairs(v.c, 1) \o <<Tok("}")>>

\* RFC 8259 JSON: what the decoder accepts, less the three constants that
\* only Python's decoder understands.
PythonOnlyLiterals == {"NaN", "Infinity", "-Infinity"}
IsValidJSON(toks) ==
    /\ json_loads(toks).ok
    /\ \A i \in 1..Len(toks) : toks[i].k \notin PythonOnlyLiterals

(***************************************************************************)
(* Python operations that can raise.  An outcome is [exc, msg, text]: exc  *)
(* is "" and text the value on success, else exc names the exception type  *)
(* and msg is str(e).                                                      *)
(***************************************************************************)
Return(text)    == [exc |-> "",   msg |-> "", text |-> text]
Raise(type, m)  == [exc |-> type, msg |-> m,  text |-> ""]

\* str.replace('\n', ' ')
RECURSIVE replace_newlines(_)
replace_newlines(s) ==
    IF Len(s) = 0 THEN ""
    ELSE IF Len(s) = 1 THEN (IF s = "\n" THEN " " ELSE s)
    ELSE replace_newlines(SubSeq(s, 1, Len(s) \div 2))
         \o replace_newlines(SubSeq(s, (Len(s) \div 2) + 1, Len(s)))

\* The comparison off by one: len(x) >= limit.
preview_inclusive(x, limit) ==
    IF x.t \notin {"str", "list", "dict"}
    THEN Raise("TypeError", "object of type '" \o x.t \o "' has no len()")
    ELSE IF x.t = "str"
    THEN Return(replace_newlines(
             IF Len(x.s) >= limit THEN SubSeq(x.s, 1, limit) \o "..." ELSE x.s))
    ELSE Raise("AttributeError", "'" \o x.t \o "' object has no attribute 'replace'")

\* The preview idiom of the text handlers (lines 83-84, 90-91, 101-102,
\* 108-109, 131-132):
\*     preview = x[:limit] + '...' if len(x) > limit else x
\*     preview = preview.replace('\n', ' ')
\* len(x) is evaluated first, then the slice and the concatenation, then replace.
preview(x, limit) ==
    IF x.t \notin {"str", "list", "dict"}
    THEN Raise("TypeError", "object of type '" \o x.t \o "' has no len()")
    ELSE IF x.t = "str"
    THEN Return(replace_newlines(
             IF Len(x.s) > limit THEN SubSeq(x.s, 1, limit) \o "..." ELSE x.s))
    ELSE IF Len(x.c) > limit
    THEN (IF x.t = "list"
          THEN Raise("TypeError", "can only concatenate list (not \"str\") to list")
          ELSE Raise("TypeError", "unhashable type: 'slice'"))
    ELSE Raise("AttributeError", "'" \o x.t \o "' object has no attribute 'replace'")

\* f"{session_id}": the id rendered whole.
slice_id_uncut(x) ==
    CASE x.t \in {"str", "list"} -> Return(PyStr(x))
      [] x.t = "dict" -> Raise("TypeError", "unhashable type: 'slice'")
      [] OTHER        -> Raise("TypeError", "'" \o x.t \o "' object is not subscriptable")

\* f"{session_id[:8]}": the slice, rendered by the f-string.
slice_id(x) ==
    CASE x.t = "str"  -> Return(SubSeq(x.s, 1, Min(SessionIdLen, Len(x.s))))
      [] x.t = "list" ->
            Return(PyStr(VList(SubSeq(x.c, 1, Min(SessionIdLen, Len(x.c))))))
      [] x.t = "dict" -> Raise("TypeError", "unhashable type: 'slice'")
      [] OTHER        -> Raise("TypeError", "'" \o x.t \o "' object is not subscriptable")

(***************************************************************************)
(* The handlers of HookParser.                                             *)
(***************************************************************************)
_handle_tool_use_started(data) ==
    LET tool_name  == get(data, "tool_name", VStr("unknown"))
        request_id == get(data, "request_id", VStr("unknown"))
    IN  Return("Tool '" \o PyStr(tool_name) \o "' started (request_id: "
               \o PyStr(request_id) \o ")")

_handle_tool_use_completed(data) ==
    LET tool_name  == get(data, "tool_name", VStr("unknown"))
        request_id == get(data, "request_id", VStr("unknown"))
        res        == get(data, "result", EmptyDict)
    IN  IF res.t # "dict"
        THEN Raise("AttributeError", "'" \o res.t \o "' object has no attribute 'get'")
        ELSE IF Truthy(get(res, "is_error", None))
        THEN LET error_msg == get(res, "error", VStr("Unknown error"))
             IN  Return("Tool '" \o PyStr(tool_name) \o "' failed with error: "
                        \o PyStr(error_msg) \o " (request_id: "
                        \o PyStr(request_id) \o ")")
        ELSE Return("Tool '" \o PyStr(tool_name)
                    \o "' completed successfully (request_id: "
                    \o PyStr(request_id) \o ")")

\* reason read with data['reason']: a KeyError when it is absent.
_handle_tool_use_blocked_strict(data) ==
    LET tool_name  == get(data, "tool_name", VStr("unknown"))
        request_id == get(data, "request_id", VStr("unknown"))
    IN  IF ~HasKey(data, "reason") THEN Raise("KeyError", "'reason'")
        ELSE Return("Tool '" \o PyStr(tool_name) \o "' was blocked: "
                    \o PyStr(get(data, "reason", None))
                    \o " (request_id: " \o PyStr(request_id) \o ")")

_handle_tool_use_blocked(data) ==
    LET tool_name  == get(data, "tool_name", VStr("unknown"))
        request_id == get(data, "request_id", VStr("unknown"))
        reason     == get(data, "reason", VStr("No reason provided"))
    IN  Return("Tool '" \o PyStr(tool_name) \o "' was blocked: " \o PyStr(reason)
               \o " (request_id: " \o PyStr(request_id) \o ")")

_handle_prompt_intercepted(data) ==
    LET prompt_preview == preview(get(data, "prompt", VStr("")), PromptLimit)
    IN  IF prompt_preview.exc # "" THEN prompt_preview
        ELSE Return("User prompt intercepted: \"" \o prompt_preview.text \o "\"")

_handle_prompt_submitted(data) ==
    LET prompt_preview == preview(get(data, "prompt", VStr("")), PromptLimit)
    IN  IF prompt_preview.exc # "" THEN prompt_preview
        ELSE Return("User prompt submitted: \"" \o prompt_preview.text \o "\"")

_handle_response_started(data) ==
    Return("Claude started generating a response")

_handle_response_chunk(data) ==
    LET chunk_preview == preview(get(data, "chunk", VStr("")), ChunkLimit)
    IN  IF chunk_preview.exc # "" THEN chunk_preview
        ELSE Return("Response chunk received: \"" \o chunk_preview.text \o "\"")

_handle_response_completed(data) ==
    LET response_preview == preview(get(data, "response", VStr("")), PromptLimit)
    IN  IF response_preview.exc # "" THEN response_preview
        ELSE Return("Claude completed response: \"" \o response_preview.text \o "\"")

_handle_error(data) ==
    LET error      == get(data, "error", VStr("Unknown error"))
        error_type == get(data, "error_type", VStr("unknown"))
    IN  Return("Error occurred (" \o PyStr(error_type) \o "): " \o PyStr(error))

\* The sentence with the preview of the response put in.
post_tool_use_with_response(tool_name, response_preview) ==
    IF response_preview.exc # "" THEN response_preview
    ELSE Return("Completed tool '" \o PyStr(tool_name) \o "' execution: "
                \o response_preview.text)

\* Line 141: the sentence of PostToolUse; response_preview is not in it.
post_tool_use(tool_name, response_preview) ==
    Return("Completed tool '" \o PyStr(tool_name) \o "' execution")

_handle_extended_event(event_type, data) ==
    LET session_id == get(data, "session_id", VStr("unknown"))
        cwd        == get(data, "cwd", VStr("unknown"))
        id         == slice_id(session_id)
    IN  CASE event_type = "Stop" ->
                IF id.exc # "" THEN id
                ELSE Return("Session stopped (id: " \o id.text \o "...) in "
                            \o PyStr(cwd))
          [] event_type \in {"Start", "SessionStart"} ->
                LET source      == get(data, "source", VStr(""))
                    source_info == IF Truthy(source)
                                   THEN " via " \o PyStr(source) ELSE ""
                IN  IF id.exc # "" THEN id
                    ELSE Return("Session started (id: " \o id.text \o "...)"
                                \o source_info \o " in " \o PyStr(cwd))
          [] event_type = "UserPromptSubmit" ->
                LET prompt_preview ==
                        preview(get(data, "prompt", VStr("")), PromptLimit)
                IN  IF prompt_preview.exc # "" THEN prompt_preview
                    ELSE Return("User submitted prompt: \""
                                \o prompt_preview.text \o "\"")
          [] event_type = "PreToolUse" ->
                LET tool_name == get(data, "tool_name", VStr("unknown"))
                IN  Return("About to use tool '" \o PyStr(tool_name) \o "'")
          [] event_type = "PostToolUse" ->
                LET tool_name == get(data, "tool_name", VStr("unknown"))
                    \* computed and never used (lines 139-140); str() of any
                    \* value is a str, so neither line can raise
                    response_preview ==
                        preview(VStr(PyStr(get(data, "tool_response", VStr("")))),
                                ChunkLimit)
                IN  post_tool_use(tool_name, response_preview)
          [] event_type = "Notification" ->
                LET message == get(data, "message", VStr("No message"))
                IN  Return("Notification: " \o PyStr(message))
          [] event_type = "SubagentStop" ->
                IF id.exc # "" THEN id
                ELSE Return("Subagent stopped (session: " \o id.text \o "...)")
          [] event_type = "SubagentStart" ->
                IF id.exc # "" THEN id
                ELSE Return("Subagent started (session: " \o id.text \o "...)")
          [] OTHER ->
                IF id.exc # "" THEN id
                ELSE Return("Session event '" \o event_type \o "' (id: "
                            \o id.text \o "...)")

\* HookParser.__init__: the dispatch table.
HookHandlers ==
    [kind \in {"tool_use_started", "tool_use_completed", "tool_use_blocked",
               "prompt_intercepted", "prompt_submitted", "response_started",
               "response_chunk", "response_completed", "error"}
        |-> "_handle_" \o kind]

\* The nine primary kinds and the nine extended kinds of the data model.
PrimaryKinds ==
    {"tool_use_started", "tool_use_completed", "tool_use_blocked",
     "prompt_intercepted", "prompt_submitted", "response_started",
     "response_chunk", "response_completed", "error"}
ExtendedKinds ==
    {"Stop", "Start", "SessionStart", "UserPromptSubmit", "PreToolUse",
     "PostToolUse", "Notification", "SubagentStop", "SubagentStart"}

\* self.hook_handlers[hook_type](data): the call of a bound method by name.
Invoke(handler, data) ==
    CASE handler = "_handle_tool_use_started"   -> _handle_tool_use_started(data)
      [] handler = "_handle_tool_use_completed" -> _handle_tool_use_completed(data)
      [] handler = "_handle_tool_use_blocked"   -> _handle_tool_use_blocked(data)
      [] handler = "_handle_prompt_intercepted" -> _handle_prompt_intercepted(data)
      [] handler = "_handle_prompt_submitted"   -> _handle_prompt_submitted(data)
      [] handler = "_handle_response_started"   -> _handle_response_started(data)
      [] handler = "_handle_response_chunk"     -> _handle_response_chunk(data)
      [] handler = "_handle_response_completed" -> _handle_response_completed(data)
      [] handler = "_handle_error"              -> _handle_error(data)


(***************************************************************************)
(* The wall clock and _format_output.                                      *)
(***************************************************************************)
DateTime(Y, M, D, h, m, sec) ==
    [year |-> Y, month |-> M, day |-> D, hour |-> h, minute |-> m, second |-> sec]

\* %m, %d, %H, %M, %S: two digits, zero-padded; %Y: four.
Pad2(k) == IF k < 10 THEN "0" \o NatToStr(k) ELSE NatToStr(k)
Pad4(k) ==
    (IF k < 10 THEN "000" ELSE IF k < 100 THEN "00" ELSE IF k < 1000 THEN "0" ELSE "")
    \o NatToStr(k)

\* datetime.strftime("%Y-%m-%d %H:%M:%S")
strftime(now) ==
    Pad4(now.year) \o "-" \o Pad2(now.month) \o "-" \o Pad2(now.day) \o " "
    \o Pad2(now.hour) \o ":" \o Pad2(now.minute) \o ":" \o Pad2(now.second)

\* The prefix put on twice.
_format_output_twice(description, now) ==
    LET timestamp == strftime(now)
    IN  "[" \o timestamp \o "] " \o "[" \o timestamp \o "] " \o description

_format_output(description, now) ==
    LET timestamp == strftime(now)
    IN  "[" \o timestamp \o "] " \o description

(***************************************************************************)
(* HookParser.parse.                                                       *)
(*                                                                         *)
(* The try block yields [exc, msg, record, description, body, path,        *)
(* handler, hook_type]: record and description are what a return statement *)
(* hands back; body is the description before _format_output, path names   *)
(* the return statement that ran, handler the handler that was called and  *)
(* hook_type the local variable of line 28 (None before it is assigned).   *)
(***************************************************************************)
Returns(data, formatted, description, where, handler) ==
    [exc |-> "", msg |-> "", record |-> data, description |-> formatted,
     body |-> description, path |-> where, handler |-> handler,
     hook_type |-> None]
Raises(type, m, handler) ==
    [exc |-> type, msg |-> m, record |-> EmptyDict, description |-> "",
     body |-> "", path |-> "raise", handler |-> handler, hook_type |-> None]

\* The operands the other way round:
\* data.get('hook_event_name') or data.get('hook').
hook_type_fallback_first(data) ==
    LET hook_event_name == get(data, "hook_event_name", None)
    IN  IF Truthy(hook_event_name) THEN hook_event_name
        ELSE get(data, "hook", None)

\* data.get('hook') or data.get('hook_event_name')
hook_type_of(data) ==
    LET hook == get(data, "hook", None)
    IN  IF Truthy(hook) THEN hook ELSE get(data, "hook_event_name", None)

\* hook_type in ['Stop', 'Start', ...] (lines 34-35): list membership
\* compares with ==.
in_extended_list(hook_type) ==
    /\ hook_type.t = "str"
    /\ hook_type.s \in {"Stop", "Start", "SessionStart", "UserPromptSubmit",
                        "PreToolUse", "PostToolUse", "Notification",
                        "SubagentStop", "SubagentStart"}

\* The record given its resolved kind before it is returned:
\* data['hook'] = hook_type.
rendered_with_hook(data, handler, description, now) ==
    IF description.exc # ""
    THEN Raises(description.exc, description.msg, handler)
    ELSE Returns(VDict(DictSet(data.c, "hook",
                               IF Truthy(get(data, "hook", None))
                               THEN get(data, "hook", None)
                               ELSE get(data, "hook_event_name", None))),
                 _format_output(description.text, now), description.text,
                 "render", handler)

\* The return statements of lines 36 and 42, or the handler's exception.
rendered(data, handler, description, now) ==
    IF description.exc # ""
    THEN Raises(description.exc, description.msg, handler)
    ELSE Returns(data, _format_output(description.text, now), description.text,
                 "render", handler)

\* Returning {} as the except clauses do, not data.
refused_empty(data, description, where, now) ==
    Returns(EmptyDict, _format_output(description, now), description, where, "")

\* The return statements of lines 31 and 39.
refused(data, description, where, now) ==
    Returns(data, _format_output(description, now), description, where, "")

\* The extended kinds recognized through the fallback field alone: a kind
\* given in 'hook' goes to the dispatch table.
dispatch_fallback_only(handlers, data, hook_type, now) ==
    IF ~Truthy(hook_type)
    THEN refused(data,
                 "Invalid hook input: missing 'hook' or 'hook_event_name' field",
                 "missing", now)
    ELSE IF in_extended_list(hook_type) /\ ~Truthy(get(data, "hook", None))
    THEN rendered(data, "_handle_extended_event",
                  _handle_extended_event(hook_type.s, data), now)
    ELSE IF hook_type.t \in {"list", "dict"}
    THEN Raises("TypeError", "unhashable type: '" \o hook_type.t \o "'", "")
    ELSE IF ~(hook_type.t = "str" /\ hook_type.s \in DOMAIN handlers)
    THEN refused(data, "Unknown hook type: " \o PyStr(hook_type), "unknown", now)
    ELSE rendered(data, handlers[hook_type.s],
                  Invoke(handlers[hook_type.s], data), now)

\* Lines 30-42, with hook_type resolved.
dispatch(handlers, data, hook_type, now) ==
    IF ~Truthy(hook_type)
    THEN refused(data,
                 "Invalid hook input: missing 'hook' or 'hook_event_name' field",
                 "missing", now)
    ELSE IF in_extended_list(hook_type)
    THEN rendered(data, "_handle_extended_event",
                  _handle_extended_event(hook_type.s, data), now)
    \* hook_type not in self.hook_handlers hashes hook_type
    ELSE IF hook_type.t \in {"list", "dict"}
    THEN Raises("TypeError", "unhashable type: '" \o hook_type.t \o "'", "")
    ELSE IF ~(hook_type.t = "str" /\ hook_type.s \in DOMAIN handlers)
    THEN refused(data, "Unknown hook type: " \o PyStr(hook_type), "unknown", now)
    ELSE rendered(data, handlers[hook_type.s],
                  Invoke(handlers[hook_type.s], data), now)

\* Lines 25-28, with the text decoded: data.get raises on anything but a dict.
loaded(handlers, j, now) ==
    IF ~j.ok THEN Raises("JSONDecodeError", j.msg, "")
    ELSE IF j.val.t # "dict"
    THEN Raises("AttributeError",
                "'" \o j.val.t \o "' object has no attribute 'get'", "")
    ELSE [dispatch(handlers, j.val, hook_type_of(j.val), now)
             EXCEPT !.hook_type = hook_type_of(j.val)]

\* The try block, lines 25-42.
try_block(handlers, text, now) == loaded(handlers, json_loads(text), now)

\* What a call of parse produced.  raised: an exception left parse.
Returned(r, data, formatted, description, where) ==
    [raised |-> FALSE, exc |-> r.exc, msg |-> r.msg, record |-> data,
     description |-> formatted, body |-> description, path |-> where,
     handler |-> r.handler, hook_type |-> r.hook_type]
Propagated(r) ==
    [raised |-> TRUE, exc |-> r.exc, msg |-> r.msg, record |-> EmptyDict,
     description |-> "", body |-> "", path |-> "raise", handler |-> r.handler,
     hook_type |-> r.hook_type]
NoResult ==
    [raised |-> FALSE, exc |-> "", msg |-> "", record |-> EmptyDict,
     description |-> "", body |-> "", path |-> "none", handler |-> "",
     hook_type |-> None]

\* except json.JSONDecodeError as e (lines 44-45)
except_JSONDecodeError(r, now) ==
    LET description == "Invalid JSON input: " \o r.msg
    IN  Returned(r, EmptyDict, _format_output(description, now), description,
                 "invalid_json")

\* A narrower clause, except AttributeError as e: a TypeError leaves parse.
except_AttributeError(r, now) ==
    IF r.exc = "AttributeError"
    THEN Returned(r, EmptyDict,
                  _format_output("Error parsing hook input: " \o r.msg, now),
                  "Error parsing hook input: " \o r.msg, "error")
    ELSE Propagated(r)

\* except Exception as e (lines 46-47)
except_Exception(r, now) ==
    LET description == "Error parsing hook input: " \o r.msg
    IN  Returned(r, EmptyDict, _format_output(description, now), description,
                 "error")

\* The try statement: the except clause Python selects for what the block did.
except_clauses(r, now) ==
    CASE r.exc = ""                -> Returned(r, r.record, r.description, r.body,
                                               r.path)
      [] r.exc = "JSONDecodeError" -> except_JSONDecodeError(r, now)
      [] OTHER                     -> except_Exception(r, now)

parse(handlers, text, now) == except_clauses(try_block(handlers, text, now), now)

(***************************************************************************)
(* The inputs.                                                             *)
(***************************************************************************)
\* The text of the places from..to: the digits in turn, a newline at the
\* places of nl.
RECURSIVE MkText(_, _, _)
MkText(from, to, nl) ==
    IF from > to THEN ""
    ELSE IF from = to THEN (IF from \in nl THEN "\n" ELSE Digits[(from % 10) + 1])
    ELSE MkText(from, (from + to) \div 2, nl)
         \o MkText(((from + to) \div 2) + 1, to, nl)

\* Lengths around a limit, and newlines at the first place, at the last place
\* kept and at the first place cut.
LengthsAround(limit) == {0, 1, limit - 1} \cup (limit .. limit + MaxOver)
TextsAround(limit) ==
    {MkText(1, len, nl \cap (1..len)) :
        len \in LengthsAround(limit),
        nl \in {{}, {1}, {limit}, {limit + 1}, {2, limit, limit + 1}}}

UUID == "173ea15b-0fa8-4742-80dc-3f8a7c8efd2a"
SessionIds ==
    {MkText(1, len, {}) : len \in LengthsAround(SessionIdLen)} \cup {UUID}

\* Values of a field that should hold a str and does not.
NonStrings ==
    {VInt(5), None, VBool(TRUE), VList(<<VInt(1), VInt(2)>>), VDict(<<>>)}

\* The fields beside the discriminator, as (key, value) pairs.
Payloads ==
    {<<>>,
     <<Pair("tool_name", VStr("bash")), Pair("request_id", VStr("123"))>>,
     <<Pair("tool_name", None), Pair("request_id", VInt(7))>>,
     <<Pair("tool_name", VStr("Write")), Pair("request_id", VStr("abc-123")),
       Pair("reason", VStr("Permission denied"))>>,
     <<Pair("result", VDict(<<Pair("is_error", VBool(TRUE)),
                              Pair("error", VStr("File not found"))>>))>>,
     <<Pair("result", VDict(<<Pair("is_error", VBool(TRUE))>>))>>,
     <<Pair("result", VDict(<<Pair("is_error", VBool(FALSE)),
                              Pair("error", VStr("ignored"))>>))>>,
     <<Pair("error", VStr("Connection timeout")),
       Pair("error_type", VStr("NetworkError"))>>,
     <<Pair("message", VStr("Build finished"))>>,
     <<Pair("source", VStr("startup")), Pair("cwd", VStr("/Users/test/project"))>>,
     <<Pair("source", VStr("")), Pair("session_id", VStr(UUID))>>,
     <<Pair("source", VInt(0))>>,
     <<Pair("tool_name", VStr("Read")),
       Pair("tool_response", VDict(<<Pair("stdout", VStr("a\nb"))>>))>>,
     <<Pair("tool_name", VStr("Read")),
       Pair("tool_response", VStr(MkText(1, ChunkLimit + MaxOver, {2})))>>,
     <<Pair("tool_name", VStr("Read")), Pair("tool_response", VStr("ok"))>>,
     <<Pair("tool_name", VStr("Read")), Pair("tool_response", None)>>,
     <<Pair("tool_name", VStr("Read")),
       Pair("tool_response", VList(<<VInt(1), VStr("a\nb")>>))>>,
     <<Pair("tool_name", VStr("Read"))>>,
     <<Pair("tool_response", VInt(5))>>,
     <<Pair("tool_name", VStr("multi\nline")), Pair("request_id", VStr("r\n1")),
       Pair("reason", VStr("first\nsecond"))>>,
     <<Pair("message", VStr("hi \n"))>>,
     <<Pair("cwd", VStr("/tmp/a\nb")), Pair("source", VStr("re\nsume"))>>,
     <<Pair("error", VStr("line 1\nline 2")), Pair("error_type", VStr("IO\nError")),
       Pair("result", VDict(<<Pair("is_error", VBool(TRUE)),
                              Pair("error", VStr("line 1\nline 2"))>>))>>}
    \cup {<<Pair("result", x)>> : x \in NonStrings \ {VDict(<<>>)}}
    \cup {<<Pair("prompt", VStr(x))>> : x \in TextsAround(PromptLimit)}
    \cup {<<Pair("response", VStr(x))>> : x \in TextsAround(PromptLimit)}
    \cup {<<Pair("chunk", VStr(x))>> : x \in TextsAround(ChunkLimit)}
    \cup {<<Pair(f, x)>> : f \in {"prompt", "response", "chunk"}, x \in NonStrings}
    \cup {<<Pair("session_id", VStr(x)), Pair("cwd", VStr("/tmp"))>> :
            x \in SessionIds}
    \cup {<<Pair("session_id", x)>> : x \in NonStrings}

\* Values of a discriminator field.
KindValues ==
    {VStr(k) : k \in ExtendedKinds \cup PrimaryKinds
                     \cup {"CustomEvent", "unknown_hook_type"}}
FalsyValues == {VStr(""), VInt(0), VBool(FALSE), None, VList(<<>>), VDict(<<>>)}
OddValues ==
    {VInt(5), VBool(TRUE), VFloat("nan"), VFloat("inf"), VFloat("-inf"),
     VList(<<VStr("Stop")>>), VDict(<<Pair("a", VInt(1))>>),
     VStr("Custom\nEvent")}

\* The discriminator fields of a record: one of the two, both, or neither.
OneDiscriminator(values) ==
    {<<Pair(f, x)>> : f \in {"hook", "hook_event_name"}, x \in values}
BothDiscriminators ==
    {<<Pair("hook", a), Pair("hook_event_name", b)>> :
        a \in FalsyValues \cup {VStr("Stop"), VStr("error"), VStr("CustomEvent")},
        b \in {VStr("Stop"), VStr("error"), VStr("SubagentStart"),
               VStr("CustomEvent"), VStr(""), VInt(0), None}}
    \cup {<<Pair("hook_event_name", VStr("Stop")), Pair("hook", VStr("error"))>>,
          <<Pair("hook", VStr("error")), Pair("hook", VStr("Stop"))>>}

FewPayloads ==
    {<<>>,
     <<Pair("tool_name", VStr("bash")), Pair("request_id", VStr("123"))>>,
     <<Pair("session_id", VStr(UUID)), Pair("cwd", VStr("/tmp"))>>}

Records ==
    {VDict(d \o p) : d \in OneDiscriminator(KindValues), p \in Payloads}
    \cup {VDict(d \o p) :
            d \in {<<>>} \cup OneDiscriminator(FalsyValues \cup OddValues)
                  \cup BothDiscriminators,
            p \in FewPayloads}

\* Valid JSON whose top-level value is no object.
Scalars ==
    {VList(<<>>), VList(<<VDict(<<Pair("hook", VStr("Stop"))>>)>>),
     VStr("Stop"), VInt(5), None, VBool(TRUE), VFloat("nan")}

\* Texts the decoder rejects: a well-formed text less one token or with one
\* token more, and the malformed texts of the tests.
Drop(toks, i) == SubSeq(toks, 1, i - 1) \o SubSeq(toks, i + 1, Len(toks))
BaseTexts ==
    {dumps(VDict(<<Pair("hook", VStr("tool_use_started")),
                   Pair("tool_name", VStr("bash"))>>)),
     dumps(VDict(<<Pair("hook_event_name", VStr("Stop")),
                   Pair("ids", VList(<<VInt(1), VInt(2)>>))>>))}
Damaged ==
    {Drop(toks, i) : toks \in BaseTexts, i \in 1..9}
    \cup {toks \o <<extra>> :
            toks \in BaseTexts,
            extra \in {Tok("}"), Tok(","), TBad("x"), TString("x")}}
    \cup {<<>>,
          <<Tok("{"), TBad("invalid"), TBad("json"), Tok("}")>>,
          <<Tok("{"), TBad("'hook'"), Tok(":"), TBad("'Stop'"), Tok("}")>>,
          <<Tok("{"), TString("hook"), Tok(":"), TString("Stop"), Tok(","),
            Tok("}")>>,
          <<Tok("{"), TString("hook"), Tok(":"), Tok("ctrlstring"), Tok("}")>>,
          <<Tok("{"), Tok("ctrlstring"), Tok(":"), TString("Stop"), Tok("}")>>,
          <<Tok("["), TInt(1), Tok(","), Tok("]")>>,
          <<Tok("["), TInt(1), TInt(2), Tok("]")>>,
          <<TBad("undefined")>>}

Texts == {dumps(v) : v \in Records \cup Scalars} \cup Damaged

\* Readings of the wall clock.
Times ==
    {DateTime(2025, 8, 2, 15, 30, 45), DateTime(2026, 1, 5, 9, 3, 7)}

(***************************************************************************)
(* The caller and the call.                                                *)
(***************************************************************************)
\* What the caller keeps of a call: the text it gave and what came back.
NoCall == [made |-> FALSE, instance |-> 0, text |-> <<>>,
           record |-> EmptyDict, body |-> ""]
Kept(inst, text, r) ==
    [made |-> TRUE, instance |-> inst, text |-> text,
     record |-> r.record, body |-> r.body]

\* The command line: --log FILE ("" when not given), --compact,
\* --no-human-readable.
Args(log, compact, no_human_readable) ==
    [log |-> log, compact |-> compact, no_human_readable |-> no_human_readable]
\* sys.stdin: a read that raises, or the text it yields.
Stdin(fails, toks) == [fails |-> fails, toks |-> toks]
\* A file: absent, or its text.
NoFile == [exists |-> FALSE, text |-> ""]
File(text) == [exists |-> TRUE, text |-> text]

Init ==
    /\ hook_handlers = HookHandlers
    /\ pc = "idle"
    /\ input_data = <<>>
    /\ result = NoResult
    /\ instance = 1
    /\ earlier = NoCall
    /\ mpc = "off"
    /\ argv = Args("", FALSE, FALSE)
    /\ stdin = Stdin(FALSE, <<>>)
    /\ raw_input = <<>>
    /\ log_dir = FALSE
    /\ log_file = NoFile
    /\ old_log = NoFile
    /\ old_dir = FALSE
    /\ stdout = ""
    /\ stderr = ""
    /\ status = -1

\* A caller hands a raw text to parse (main.py:127, the tests).
Call ==
    /\ pc = "idle"
    /\ mpc = "off"
    /\ \E text \in Texts : input_data' = text
    /\ pc' = "called"
    /\ UNCHANGED <<hook_handlers, result, history_vars, main_vars>>

\* A dispatch that takes the handler out of the table: del self.hook_handlers
\* [hook_type] once the handler has run.
self_without_handler(handlers, r) ==
    IF r.handler # "" /\ r.hook_type.t = "str" /\ r.hook_type.s \in DOMAIN handlers
    THEN [k \in DOMAIN handlers \ {r.hook_type.s} |-> handlers[k]]
    ELSE handlers

\* self.hook_handlers after a call of parse: parse and the handlers read
\* the table and assign nothing to self.
self_after_parse(handlers, r) == handlers

\* parse runs to its return, or raises.
Parse ==
    /\ pc = "called"
    /\ \E now \in Times : result' = parse(hook_handlers, input_data, now)
    /\ pc' = IF result'.raised THEN "raised" ELSE "returned"
    /\ hook_handlers' = self_after_parse(hook_handlers, result')
    /\ UNCHANGED <<input_data, history_vars, main_vars>>

\* The caller is done with the record and the description; the parser
\* instance stays.
Discard ==
    /\ pc = "returned"
    /\ mpc = "off"
    /\ pc' = "idle"
    /\ input_data' = <<>>
    /\ result' = NoResult
    /\ UNCHANGED <<hook_handlers, history_vars, main_vars>>

Next == Call \/ Parse \/ Discard

Spec == Init /\ [][Next]_vars

(***************************************************************************)
(* A caller that calls parse again and again, on one instance or on a new  *)
(* one, and keeps an earlier call to compare with.                         *)
(***************************************************************************)
\* How many HookParser instances a caller constructs.
MaxInstances == 2

\* The texts called again: one of each way through parse and each handler.
AgainTexts ==
    {dumps(VDict(d \o p)) :
        d \in OneDiscriminator({VStr("Stop"), VStr("error"),
                                VStr("tool_use_completed"),
                                VStr("prompt_intercepted"),
                                VStr("CustomEvent"), VInt(0),
                                VList(<<VStr("Stop")>>)}),
        p \in FewPayloads \cup {<<Pair("prompt", VStr("a\nb"))>>,
                                <<Pair("result", None)>>}}
    \cup {dumps(v) : v \in Scalars} \cup {<<>>, <<TBad("undefined")>>}

\* The caller hands parse a text, perhaps one it has handed before.
CallAgain ==
    /\ pc = "idle"
    /\ mpc = "off"
    /\ \E text \in AgainTexts : input_data' = text
    /\ pc' = "called"
    /\ UNCHANGED <<hook_handlers, result, history_vars, main_vars>>

\* The caller is done with a call; it keeps this call or the one it kept.
Remember ==
    /\ pc = "returned"
    /\ mpc = "off"
    /\ \/ earlier' = Kept(instance, input_data, result)
       \/ UNCHANGED earlier
    /\ pc' = "idle"
    /\ input_data' = <<>>
    /\ result' = NoResult
    /\ UNCHANGED <<hook_handlers, instance, main_vars>>

\* HookParser(): a new instance, its table built by __init__.
Construct ==
    /\ pc = "idle"
    /\ mpc = "off"
    /\ instance < MaxInstances
    /\ instance' = instance + 1
    /\ hook_handlers' = HookHandlers
    /\ UNCHANGED <<pc, input_data, result, earlier, main_vars>>

RepeatNext == CallAgain \/ Parse \/ Remember \/ Construct

Repeat == Init /\ [][RepeatNext]_vars

(***************************************************************************)
(* main.py.  The text on stdin is a token sequence that may begin and end  *)
(* with whitespace tokens; as characters it is its tokens, a space between *)
(* two of them.                                                            *)
(***************************************************************************)
\* A run of whitespace characters in the raw text.
TWs(x) == [k |-> "ws", s |-> x, n |-> 0]

\* str.strip(): the text without its leading and trailing whitespace.
RECURSIVE lstrip_toks(_)
lstrip_toks(toks) ==
    IF Len(toks) > 0 /\ toks[1].k = "ws" THEN lstrip_toks(Tail(toks)) ELSE toks
RECURSIVE rstrip_toks(_)
rstrip_toks(toks) ==
    IF Len(toks) > 0 /\ toks[Len(toks)].k = "ws"
    THEN rstrip_toks(SubSeq(toks, 1, Len(toks) - 1)) ELSE toks
\* The text as read, not stripped: raw_input = sys.stdin.read().
strip_nothing(toks) == toks

strip(toks) == rstrip_toks(lstrip_toks(toks))

\* json.encoder.encode_basestring_ascii: the string literal of a str (the
\* sampled texts hold no quote, backslash or non-ASCII character).
encode_basestring(x) == "\"" \o EscapeNewlines(x) \o "\""

\* The characters of one token.
TokText(tok) ==
    CASE tok.k = "string"     -> encode_basestring(tok.s)
      [] tok.k = "int"        -> IntToStr(tok.n)
      [] tok.k \in {"bad", "ws"} -> tok.s
      [] tok.k = "ctrlstring" -> "\"a\nb\""
      [] OTHER                -> tok.k
\* f"{raw_input}": the characters of the raw text.
RECURSIVE RawText(_)
RawText(toks) ==
    IF Len(toks) = 0 THEN ""
    ELSE IF Len(toks) = 1 THEN TokText(toks[1])
    ELSE TokText(toks[1]) \o " " \o RawText(Tail(toks))

\* ' ' * n and '=' * n
RECURSIVE Repeated(_, _)
Repeated(ch, n) == IF n <= 0 THEN "" ELSE ch \o Repeated(ch, n - 1)

\* json.dumps(obj, indent=2): _make_iterencode with newline_indent.
JsonIndent == 2
RECURSIVE pretty(_, _)
RECURSIVE PrettyItems(_, _, _)
RECURSIVE PrettyPairs(_, _, _)
PrettyItems(xs, i, level) ==
    IF i > Len(xs) THEN ""
    ELSE (IF i > 1 THEN ",\n" ELSE "") \o Repeated(" ", JsonIndent * level)
         \o pretty(xs[i], level) \o PrettyItems(xs, i + 1, level)
PrettyPairs(ps, i, level) ==
    IF i > Len(ps) THEN ""
    ELSE (IF i > 1 THEN ",\n" ELSE "") \o Repeated(" ", JsonIndent * level)
         \o encode_basestring(ps[i].k) \o ": " \o pretty(ps[i].v, level)
         \o PrettyPairs(ps, i + 1, level)
pretty(v, level) ==
    CASE v.t = "str"      -> encode_basestring(v.s)
      [] v.t = "int"      -> IntToStr(v.n)
      [] v.t = "float"    ->
            (CASE v.s = "nan" -> "NaN" [] v.s = "inf" -> "Infinity"
               [] OTHER -> "-Infinity")
      [] v.t = "bool"     -> IF v.n = 1 THEN "true" ELSE "false"
      [] v.t = "NoneType" -> "null"
      [] v.t = "list"     ->
            IF Len(v.c) = 0 THEN "[]"
            ELSE "[\n" \o PrettyItems(v.c, 1, level + 1) \o "\n"
                 \o Repeated(" ", JsonIndent * level) \o "]"
      [] OTHER            ->
            IF Len(v.c) = 0 THEN "{}"
            ELSE "{\n" \o PrettyPairs(v.c, 1, level + 1) \o "\n"
                 \o Repeated(" ", JsonIndent * level) \o "}"

\* Whether a str holds a newline: '\n' in value.
RECURSIVE HasNewline(_)
HasNewline(x) ==
    IF Len(x) = 0 THEN FALSE
    ELSE IF Len(x) = 1 THEN x = "\n"
    ELSE \/ HasNewline(SubSeq(x, 1, Len(x) \div 2))
         \/ HasNewline(SubSeq(x, (Len(x) \div 2) + 1, Len(x)))

\* extract_multiline_fields (lines 66-75): the (full_key, value) pairs of the
\* str values holding a newline, objects inside objects searched in turn.
RECURSIVE extract_multiline_fields(_, _)
RECURSIVE ExtractFrom(_, _, _)
ExtractFrom(ps, i, prefix) ==
    IF i > Len(ps) THEN <<>>
    ELSE LET full_key == IF prefix # "" THEN prefix \o "." \o ps[i].k
                         ELSE ps[i].k
         IN  (IF ps[i].v.t = "str" /\ HasNewline(ps[i].v.s)
              THEN <<Pair(full_key, ps[i].v.s)>>
              ELSE IF ps[i].v.t = "dict"
              THEN extract_multiline_fields(ps[i].v, full_key)
              ELSE <<>>)
             \o ExtractFrom(ps, i + 1, prefix)
extract_multiline_fields(obj, prefix) ==
    IF obj.t = "dict" THEN ExtractFrom(obj.c, 1, prefix) ELSE <<>>

\* for line in field_value.split('\n'): log_entry += f"    {line}\n"
RECURSIVE indented_lines(_, _)
indented_lines(x, from) ==
    LET ends == {i \in from..Len(x) : SubSeq(x, i, i) = "\n"}
        stop == IF ends = {} THEN Len(x) + 1
                ELSE CHOOSE i \in ends : \A j \in ends : i <= j
    IN  "    " \o SubSeq(x, from, stop - 1) \o "\n"
        \o (IF stop > Len(x) THEN "" ELSE indented_lines(x, stop + 1))
RECURSIVE HumanReadable(_, _)
HumanReadable(fields, i) ==
    IF i > Len(fields) THEN ""
    ELSE "  " \o fields[i].k \o ":\n" \o indented_lines(fields[i].v, 1)
         \o HumanReadable(fields, i + 1)

\* The separator is 60 characters wide less the 7 of its frame (line 49).
SeparatorWidth == 60
SeparatorFrame == 7
\* The text as it is: f"Output: {output}\n".
rstrip_nothing(x) == x

\* str.rstrip(): without its trailing whitespace.
RECURSIVE rstrip(_)
rstrip(x) ==
    IF Len(x) > 0 /\ SubSeq(x, Len(x), Len(x)) \in {" ", "\n", "\t", "\r"}
    THEN rstrip(SubSeq(x, 1, Len(x) - 1)) ELSE x

\* append_to_log, lines 47-91: the entry it builds (output is "" for None).
raw_input_part(parsed, text, show_human_readable, compact) ==
    IF ~parsed.ok \/ compact THEN "Raw Input: " \o text \o "\n"
    ELSE "Raw Input:\n" \o pretty(parsed.val, 0) \o "\n"
         \o (IF show_human_readable
                /\ Len(extract_multiline_fields(parsed.val, "")) > 0
             THEN "\nHuman-readable format:\n"
                  \o HumanReadable(extract_multiline_fields(parsed.val, ""), 1)
             ELSE "")
log_entry(raw, output, show_human_readable, compact, now) ==
    "\n" \o "=== [" \o strftime(now) \o "] "
    \o Repeated("=", SeparatorWidth - Len(strftime(now)) - SeparatorFrame) \o "\n"
    \o raw_input_part(json_loads(raw), RawText(raw), show_human_readable, compact)
    \o (IF output # "" THEN "Output: " \o rstrip(output) \o "\n" ELSE "")

\* "Error" in output: whether sub occurs in x.
in_str(sub, x) ==
    \E i \in 1..(Len(x) - Len(sub) + 1) : SubSeq(x, i, i + Len(sub) - 1) = sub

\* What the interpreter prints for an exception no handler caught (the frame
\* lines left out); the process then ends with status 1.
Traceback(type, m) ==
    "Traceback (most recent call last):\n" \o type \o ": " \o m \o "\n"
\* print(f"[{timestamp}] {text}", file=sys.stderr)
Stamped(now, text) == "[" \o strftime(now) \o "] " \o text \o "\n"

\* The inputs of a run.
LogPath == "logs/hooks.log"
ArgLines ==
    {Args(log, compact, no_human_readable) :
        log \in {"", LogPath}, compact \in BOOLEAN, no_human_readable \in BOOLEAN}
MainRecords ==
    {VDict(<<Pair("hook", VStr("response_started"))>>),
     VDict(<<Pair("hook", VStr("tool_use_started")), Pair("tool_name", VStr("bash")),
             Pair("request_id", VStr("123"))>>),
     VDict(<<Pair("hook", VStr("tool_use_started")),
             Pair("tool_name", VStr("ErrorTool"))>>),
     VDict(<<Pair("hook", VStr("tool_use_started")),
             Pair("tool_name", VStr("errors"))>>),
     VDict(<<Pair("hook", VStr("error")), Pair("error", VStr("Connection timeout")),
             Pair("error_type", VStr("NetworkError"))>>),
     VDict(<<Pair("hook", VStr("CustomEvent"))>>),
     VDict(<<Pair("hook", VStr("InvalidKind"))>>),
     VDict(<<Pair("hook_event_name", VStr("Stop")), Pair("session_id", VStr(UUID)),
             Pair("cwd", VStr("/Users/test/Errors"))>>),
     VDict(<<Pair("hook_event_name", VStr("Notification")),
             Pair("message", VStr("hi \n"))>>),
     VDict(<<Pair("hook", VStr("prompt_submitted")),
             Pair("prompt", VStr("Line 1\nLine 2\nInvalid"))>>),
     VDict(<<Pair("hook_event_name", VStr("PostToolUse")),
             Pair("tool_name", VStr("Read")),
             Pair("tool_response", VDict(<<Pair("stdout", VStr("a\nb")),
                                           Pair("codes", VList(<<VInt(0), VInt(1)>>))>>))>>),
     VDict(<<Pair("session_id", VStr(UUID))>>),
     VDict(<<>>),
     VList(<<VInt(1)>>),
     VFloat("nan")}
MainTexts ==
    {dumps(v) : v \in MainRecords}
    \cup {<<Tok("{"), TBad("invalid"), TBad("json"), Tok("}")>>,
          <<Tok("{"), TString("hook"), Tok(":"), TString("Stop")>>}
Stdins ==
    {Stdin(TRUE, <<>>)}
    \cup {Stdin(FALSE, text) : text \in MainTexts}
    \cup {Stdin(FALSE, <<TWs("  \n")>> \o text \o <<TWs("\n  ")>>) :
            text \in {dumps(VDict(<<Pair("hook", VStr("response_started"))>>)),
                      <<Tok("{"), TBad("invalid"), TBad("json"), Tok("}")>>}}
    \cup {Stdin(FALSE, <<>>), Stdin(FALSE, <<TWs(" ")>>),
          Stdin(FALSE, <<TWs("\n"), TWs(" \t")>>)}
OldLogs == {NoFile, File(""), File("=== earlier entry ===\nOutput: old\n")}
\* str(e) of the failures the environment can produce.
ReadError  == "Read error"
MkdirError == "[Errno 20] Not a directory: 'logs'"
OpenError  == "[Errno 13] Permission denied: 'logs/hooks.log'"

\* The process starts: a command line, a stdin, and the log file as it is.
\* Without --log the file system plays no part.
Launch ==
    /\ mpc = "off"
    /\ pc = "idle"
    /\ \E a \in ArgLines, input \in Stdins, dir \in BOOLEAN, f \in OldLogs :
          /\ f.exists => dir
          /\ a.log = "" => (~dir /\ ~f.exists)
          /\ argv' = a
          /\ stdin' = input
          /\ log_dir' = dir
          /\ log_file' = f
          /\ old_log' = f
          /\ old_dir' = dir
    /\ mpc' = "read"
    /\ UNCHANGED <<parser_vars, history_vars, raw_input, stdout, stderr, status>>

\* Lines 107-114: read stdin and strip it; no input, or a read that raises,
\* ends the process with status 1.
ReadStdin ==
    /\ mpc = "read"
    /\ \E now \in Times :
          IF stdin.fails
          THEN /\ stderr' = stderr \o Stamped(now, "Error reading input: " \o ReadError)
               /\ status' = 1
               /\ mpc' = "exited"
               /\ UNCHANGED raw_input
          ELSE IF strip(stdin.toks) = <<>>
          THEN /\ stderr' = stderr \o Stamped(now, "Error: No input received")
               /\ status' = 1
               /\ mpc' = "exited"
               /\ raw_input' = <<>>
          ELSE /\ raw_input' = strip(stdin.toks)
               /\ mpc' = IF argv.log # "" THEN "log_raw" ELSE "call"
               /\ UNCHANGED <<stderr, status>>
    /\ UNCHANGED <<parser_vars, history_vars, argv, stdin, log_dir, log_file,
                   old_log, old_dir, stdout>>

\* Lines 117-123: make the directory of the log file (an error here is not
\* caught), then append_to_log, whose open or write may fail (lines 93-98).
LogRawInput ==
    /\ mpc = "log_raw"
    /\ \E now \in Times, mkdir_fails \in BOOLEAN, open_fails \in BOOLEAN :
          IF mkdir_fails /\ ~log_dir
          THEN /\ stderr' = stderr \o Traceback("NotADirectoryError", MkdirError)
               /\ status' = 1
               /\ mpc' = "exited"
               /\ UNCHANGED <<log_dir, log_file>>
          ELSE /\ log_dir' = TRUE
               /\ IF open_fails
                  THEN /\ stderr' = stderr \o Stamped(now,
                              "Warning: Failed to write to log file: " \o OpenError)
                       /\ UNCHANGED log_file
                  ELSE /\ log_file' = File(log_file.text
                              \o log_entry(raw_input, "",
                                           ~(argv.compact \/ argv.no_human_readable),
                                           argv.compact, now))
                       /\ UNCHANGED stderr
               /\ mpc' = "call"
               /\ UNCHANGED status
    /\ UNCHANGED <<parser_vars, history_vars, argv, stdin, raw_input, old_log,
                   old_dir, stdout>>

\* Lines 126-127: a HookParser is constructed and parse is called.
MainCall ==
    /\ mpc = "call"
    /\ hook_handlers' = HookHandlers
    /\ input_data' = raw_input
    /\ pc' = "called"
    /\ mpc' = "parse"
    /\ UNCHANGED <<result, history_vars, argv, stdin, raw_input, log_dir,
                   log_file, old_log, old_dir, stdout, stderr, status>>

\* Line 130: print(output).
PrintOutput ==
    /\ mpc = "parse"
    /\ pc = "returned"
    /\ stdout' = stdout \o result.description \o "\n"
    /\ mpc' = IF argv.log # "" THEN "log_output" ELSE "exit"
    /\ UNCHANGED <<parser_vars, history_vars, argv, stdin, raw_input, log_dir,
                   log_file, old_log, old_dir, stderr, status>>

\* Lines 133-136: the Output line is appended; an error here is not caught.
LogOutput ==
    /\ mpc = "log_output"
    /\ \E open_fails \in BOOLEAN :
          IF open_fails
          THEN /\ stderr' = stderr \o Traceback("PermissionError", OpenError)
               /\ status' = 1
               /\ mpc' = "exited"
               /\ UNCHANGED log_file
          ELSE /\ log_file' = File(log_file.text \o "Output: "
                                   \o rstrip(result.description) \o "\n")
               /\ mpc' = "exit"
               /\ UNCHANGED <<stderr, status>>
    /\ UNCHANGED <<parser_vars, history_vars, argv, stdin, raw_input, log_dir,
                   old_log, old_dir, stdout>>

\* Lines 139-142: the exit status.
Exit ==
    /\ mpc = "exit"
    /\ status' = IF in_str("Error", result.description)
                    \/ in_str("Invalid", result.description)
                 THEN 1 ELSE 0
    /\ mpc' = "exited"
    /\ UNCHANGED <<parser_vars, history_vars, argv, stdin, raw_input, log_dir,
                   log_file, old_log, old_dir, stdout, stderr>>

MainNext ==
    \/ Launch \/ ReadStdin \/ LogRawInput \/ MainCall \/ Parse \/ PrintOutput
    \/ LogOutput \/ Exit

Main == Init /\ [][MainNext]_vars

(***************************************************************************)
(* The claims.  Given is the decoded input of the call that just returned. *)
(***************************************************************************)
Done == pc = "returned"
Given == json_loads(input_data)
GivenRecord == Given.ok /\ Given.val.t = "dict"
HasField(name) == HasKey(Given.val, name)
Field(name) == get(Given.val, name, None)
StartsWith(s, prefix) ==
    Len(s) >= Len(prefix) /\ SubSeq(s, 1, Len(prefix)) = prefix

\* Empty: null, "", [] and {}.  Falsy: what Python's `or` skips, which is the
\* empty values and also false and 0.
IsEmpty(v) ==
    \/ v.t = "NoneType"
    \/ v.t = "str" /\ v.s = ""
    \/ v.t \in {"list", "dict"} /\ Len(v.c) = 0
IsFalsy(v) ==
    \/ IsEmpty(v)
    \/ v.t \in {"int", "bool"} /\ v.n = 0

\* The discriminator of the record: 'hook', or 'hook_event_name' when 'hook'
\* is absent or falsy (None when both are absent).
Discriminator ==
    IF IsFalsy(Field("hook")) THEN Field("hook_event_name") ELSE Field("hook")
IsKind(kind) == Discriminator = VStr(kind)
IsUnhashable(v) == v.t \in {"list", "dict"}

\* The field a text kind previews ("" for the other kinds), and the kinds
\* whose sentence shows the session id.
TextField(kind) ==
    CASE kind \in {"prompt_intercepted", "prompt_submitted", "UserPromptSubmit"}
                                      -> "prompt"
      [] kind = "response_completed"  -> "response"
      [] kind = "response_chunk"      -> "chunk"
      [] OTHER                        -> ""
IdKinds == {"Stop", "Start", "SessionStart", "SubagentStop", "SubagentStart"}

\* The failures C1 lists, for a valid JSON input.
C1_ListedFailure ==
    \/ Given.val.t # "dict"
    \/ /\ Given.val.t = "dict"
       /\ ~IsFalsy(Discriminator)
       /\ \/ IsUnhashable(Discriminator)
          \/ /\ Discriminator.t = "str"
             /\ \/ /\ TextField(Discriminator.s) # ""
                   /\ HasField(TextField(Discriminator.s))
                   /\ Field(TextField(Discriminator.s)).t # "str"
                \/ /\ Discriminator.s \in IdKinds
                   /\ HasField("session_id")
                   /\ Field("session_id").t \notin {"str", "list"}
                \/ /\ Discriminator.s = "tool_use_completed"
                   /\ HasField("result")
                   /\ Field("result").t # "dict"

\* C1: parse never lets an exception out; a valid JSON input on which
\* dispatch or rendering fails (a listed failure, or any exception raised in
\* the try block) returns the empty mapping and the description body
\* 'Error parsing hook input: <error message>'.
C1_NeverPropagates ==
    /\ pc # "raised"
    /\ ~result.raised
    /\ (Done /\ IsValidJSON(input_data) /\ (C1_ListedFailure \/ result.exc # ""))
          => /\ result.record = EmptyDict
             /\ result.path = "error"
             /\ result.msg # ""
             /\ result.body = "Error parsing hook input: " \o result.msg

\* A valid record whose discriminator is a list: hashing it raised TypeError.
C1_Witness ==
    /\ Done
    /\ IsValidJSON(input_data)
    /\ GivenRecord
    /\ Discriminator.t = "list"
    /\ result.exc = "TypeError"
    /\ result.body = "Error parsing hook input: unhashable type: 'list'"

\* C2: every input text that is not valid JSON returns the empty mapping and
\* the description body 'Invalid JSON input: <parser error message>', and no
\* handler is invoked.
C2_InvalidJSONReported ==
    (Done /\ ~IsValidJSON(input_data))
        => /\ result.record = EmptyDict
           /\ result.handler = ""
           /\ result.path = "invalid_json"
           /\ ~Given.ok
           /\ result.body = "Invalid JSON input: " \o Given.msg

\* C3 as stated: 'hook' is the discriminator whenever it is present and not
\* empty, 'hook_event_name' whenever 'hook' is absent or empty, and with
\* neither present or both empty parse returns the parsed record and the
\* missing-field description.
C3_HookUnlessEmpty ==
    (Done /\ GivenRecord)
        => /\ (HasField("hook") /\ ~IsEmpty(Field("hook")))
                 => result.hook_type = Field("hook")
           /\ (~HasField("hook") \/ IsEmpty(Field("hook")))
                 => result.hook_type = Field("hook_event_name")
           /\ (IsEmpty(Field("hook")) /\ IsEmpty(Field("hook_event_name")))
                 => /\ result.path = "missing"
                    /\ result.record = Given.val

\* C3 (amended): 'hook' is the discriminator whenever it is present and
\* truthy, so it wins when both fields are; 'hook_event_name' is the
\* discriminator whenever 'hook' is absent or falsy (null, false, 0, "", [],
\* {}); and exactly when neither field holds a truthy value parse returns the
\* parsed record itself with the description body "Invalid hook input:
\* missing 'hook' or 'hook_event_name' field".
C3_HookUnlessFalsy ==
    (Done /\ GivenRecord)
        => /\ ~IsFalsy(Field("hook")) => result.hook_type = Field("hook")
           /\ IsFalsy(Field("hook"))
                 => result.hook_type = Field("hook_event_name")
           /\ (IsFalsy(Field("hook")) /\ IsFalsy(Field("hook_event_name")))
                 <=> result.path = "missing"
           /\ result.path = "missing"
                 => /\ result.record = Given.val
                    /\ result.exc = ""
                    /\ result.body = "Invalid hook input: missing 'hook' or 'hook_event_name' field"

\* Both fields hold a kind, not the same one, and 'hook' decided.
C3_Witness ==
    /\ Done
    /\ GivenRecord
    /\ Field("hook") = VStr("error")
    /\ Field("hook_event_name") = VStr("Stop")
    /\ result.hook_type = VStr("error")
    /\ result.handler = "_handle_error"

\* The record with its discriminator moved to the other field.
Swapped(data) ==
    VDict([i \in 1..Len(data.c) |->
              Pair(CASE data.c[i].k = "hook"            -> "hook_event_name"
                     [] data.c[i].k = "hook_event_name" -> "hook"
                     [] OTHER                           -> data.c[i].k,
                   data.c[i].v)])
C4_Twin ==
    parse(hook_handlers, dumps(Swapped(Given.val)), DateTime(2025, 8, 2, 15, 30, 45))

\* C4: a record whose discriminator is one of the nine extended kinds is
\* rendered by the extended-kind rules whichever field holds it, and the
\* record with the kind in the other field, all else equal, yields the same
\* description body (or the same failure).
C4_ExtendedByEitherField ==
    (/\ Done
     /\ GivenRecord
     /\ HasField("hook") # HasField("hook_event_name")
     /\ Discriminator.t = "str"
     /\ Discriminator.s \in ExtendedKinds)
        => /\ result.handler = "_handle_extended_event"
           /\ C4_Twin.handler = "_handle_extended_event"
           /\ result.body = C4_Twin.body
           /\ result.path = C4_Twin.path
           /\ result.msg = C4_Twin.msg

\* An extended kind given in 'hook', with a session id to render.
C4_Witness ==
    /\ Done
    /\ GivenRecord
    /\ Field("hook") = VStr("SubagentStop")
    /\ ~HasField("hook_event_name")
    /\ Field("session_id") = VStr(UUID)
    /\ result.body = "Subagent stopped (session: 173ea15b...)"

IsKnownKind(v) == v.t = "str" /\ v.s \in ExtendedKinds \cup PrimaryKinds

\* C5 as stated: every resolved discriminator value outside the eighteen
\* kinds returns the parsed record and 'Unknown hook type: <value>', and no
\* handler is invoked.
C5_UnknownForEveryValue ==
    (Done /\ GivenRecord /\ ~IsFalsy(Discriminator) /\ ~IsKnownKind(Discriminator))
        => /\ result.record = Given.val
           /\ result.handler = ""
           /\ result.body = "Unknown hook type: " \o PyStr(Discriminator)

\* C5 (amended): exactly the hashable discriminator values (strings, numbers,
\* true) outside the eighteen kinds return the parsed record and 'Unknown
\* hook type: <value>' with no handler invoked; an unhashable value (an array
\* or an object) returns the empty mapping and 'Error parsing hook input:
\* unhashable type: <type>', again with no handler invoked.
C5_UnknownForHashableValue ==
    (Done /\ GivenRecord /\ ~IsFalsy(Discriminator))
        => /\ result.path = "unknown"
                 <=> (~IsUnhashable(Discriminator) /\ ~IsKnownKind(Discriminator))
           /\ result.path = "unknown"
                 => /\ result.record = Given.val
                    /\ result.handler = ""
                    /\ result.exc = ""
                    /\ result.body = "Unknown hook type: " \o PyStr(Discriminator)
                    /\ Discriminator.t = "str"
                          => result.body = "Unknown hook type: " \o Discriminator.s
           /\ IsUnhashable(Discriminator)
                 => /\ result.record = EmptyDict
                    /\ result.handler = ""
                    /\ result.body = "Error parsing hook input: unhashable type: '"
                                     \o Discriminator.t \o "'"

\* The unknown kind of the tests, with fields beside it.
C5_Witness ==
    /\ Done
    /\ GivenRecord
    /\ Field("hook") = VStr("unknown_hook_type")
    /\ HasField("tool_name")
    /\ result.record = Given.val
    /\ result.body = "Unknown hook type: unknown_hook_type"

\* The session id a sentence shows for the given record: 'unknown' when the
\* field is absent.
GivenSessionId ==
    IF HasField("session_id") THEN Field("session_id").s ELSE "unknown"
FirstEight(s) == SubSeq(s, 1, Min(SessionIdLen, Len(s)))

\* C6: any value of the fallback field 'hook_event_name' other than the nine
\* extended kinds renders as "Session event '<kind>' (id: <first 8 chars of
\* session_id>...)".
C6_GenericSessionEvent ==
    (/\ Done
     /\ GivenRecord
     /\ IsFalsy(Field("hook"))
     /\ Field("hook_event_name").t = "str"
     /\ Field("hook_event_name").s \notin ExtendedKinds \cup PrimaryKinds \cup {""}
     /\ HasField("session_id") => Field("session_id").t = "str")
        => result.body = "Session event '" \o Field("hook_event_name").s
                         \o "' (id: " \o FirstEight(GivenSessionId) \o "...)"

DigitChars == {"0", "1", "2", "3", "4", "5", "6", "7", "8", "9"}
\* YYYY-MM-DD HH:MM:SS
IsTimestamp(ts) ==
    /\ Len(ts) = 19
    /\ \A i \in 1..19 :
          SubSeq(ts, i, i) \in (CASE i \in {5, 8}   -> {"-"}
                                  [] i = 11         -> {" "}
                                  [] i \in {14, 17} -> {":"}
                                  [] OTHER          -> DigitChars)

\* C7: on every return path the description is '[<timestamp>] ' once,
\* followed by the description body of that path.
C7_OnePrefix ==
    Done =>
        /\ ~result.raised
        /\ result.path \in {"render", "missing", "unknown", "invalid_json", "error"}
        /\ Len(result.description) = 22 + Len(result.body)
        /\ SubSeq(result.description, 1, 1) = "["
        /\ IsTimestamp(SubSeq(result.description, 2, 20))
        /\ SubSeq(result.description, 21, 22) = "] "
        /\ SubSeq(result.description, 23, Len(result.description)) = result.body
        /\ result.path = "missing"
              => result.body = "Invalid hook input: missing 'hook' or 'hook_event_name' field"
        /\ result.path = "unknown" => StartsWith(result.body, "Unknown hook type: ")
        /\ result.path = "invalid_json" => StartsWith(result.body, "Invalid JSON input: ")
        /\ result.path = "error" => StartsWith(result.body, "Error parsing hook input: ")
        /\ result.path = "render" => result.handler # ""

\* The except Exception path, at a clock reading whose fields need padding.
C7_Witness ==
    /\ Done
    /\ result.path = "error"
    /\ result.description
         = "[2026-01-05 09:03:07] Error parsing hook input: 'NoneType' object has no attribute 'get'"

\* The sentence of each kind with every optional field at its default.
DefaultSentence(kind) ==
    CASE kind = "tool_use_started"
            -> "Tool 'unknown' started (request_id: unknown)"
      [] kind = "tool_use_completed"
            -> "Tool 'unknown' completed successfully (request_id: unknown)"
      [] kind = "tool_use_blocked"
            -> "Tool 'unknown' was blocked: No reason provided (request_id: unknown)"
      [] kind = "prompt_intercepted" -> "User prompt intercepted: \"\""
      [] kind = "prompt_submitted"   -> "User prompt submitted: \"\""
      [] kind = "response_started"   -> "Claude started generating a response"
      [] kind = "response_chunk"     -> "Response chunk received: \"\""
      [] kind = "response_completed" -> "Claude completed response: \"\""
      [] kind = "error"              -> "Error occurred (unknown): Unknown error"
      [] kind = "Stop"               -> "Session stopped (id: unknown...) in unknown"
      [] kind \in {"Start", "SessionStart"}
            -> "Session started (id: unknown...) in unknown"
      [] kind = "UserPromptSubmit"   -> "User submitted prompt: \"\""
      [] kind = "PreToolUse"         -> "About to use tool 'unknown'"
      [] kind = "PostToolUse"        -> "Completed tool 'unknown' execution"
      [] kind = "Notification"       -> "Notification: No message"
      [] kind = "SubagentStop"       -> "Subagent stopped (session: unknown...)"
      [] kind = "SubagentStart"      -> "Subagent started (session: unknown...)"

\* A record holding the discriminator, a known kind, and nothing else.
MinimalRecord ==
    /\ GivenRecord
    /\ Len(Given.val.c) = 1
    /\ Given.val.c[1].k \in {"hook", "hook_event_name"}
    /\ IsKnownKind(Given.val.c[1].v)
\* A completed tool use whose result holds is_error and no error text.
ErrorWithoutText ==
    /\ GivenRecord
    /\ IsKind("tool_use_completed")
    /\ Field("result") = VDict(<<Pair("is_error", VBool(TRUE))>>)
    /\ ~HasField("tool_name")
    /\ ~HasField("request_id")

\* C8: for each of the eighteen kinds, a record holding only the
\* discriminator is rendered by its handler with every optional field at its
\* documented default, and a failed result without an error text reads
\* 'Unknown error'; none of these records yields an 'Error parsing hook
\* input' or 'Invalid' description.
C8_DefaultsApplied ==
    /\ (Done /\ MinimalRecord)
          => /\ result.path = "render"
             /\ result.exc = ""
             /\ result.record = Given.val
             /\ result.body = DefaultSentence(Discriminator.s)
             /\ ~StartsWith(result.body, "Error parsing hook input")
             /\ ~StartsWith(result.body, "Invalid")
    /\ (Done /\ ErrorWithoutText)
          => /\ result.path = "render"
             /\ result.body =
                  "Tool 'unknown' failed with error: Unknown error (request_id: unknown)"

\* The blocked tool use with no reason given, the kind in the fallback field.
C8_Witness ==
    /\ Done
    /\ MinimalRecord
    /\ Field("hook_event_name") = VStr("tool_use_blocked")
    /\ result.body
         = "Tool 'unknown' was blocked: No reason provided (request_id: unknown)"

\* The sentence before the quoted text of each text kind, and its limit.
TextSentence(kind) ==
    CASE kind = "prompt_intercepted" -> "User prompt intercepted: "
      [] kind = "prompt_submitted"   -> "User prompt submitted: "
      [] kind = "UserPromptSubmit"   -> "User submitted prompt: "
      [] kind = "response_chunk"     -> "Response chunk received: "
      [] kind = "response_completed" -> "Claude completed response: "
TextLimit(kind) == IF kind = "response_chunk" THEN ChunkLimit ELSE PromptLimit
\* The text between the quotes that follow the sentence.
Quoted(kind) ==
    SubSeq(result.body, Len(TextSentence(kind)) + 2, Len(result.body) - 1)
\* The first n characters of q are those of s, each newline made a space.
Flattened(q, s, n) ==
    \A i \in 1..n :
        SubSeq(q, i, i) = IF SubSeq(s, i, i) = "\n" THEN " " ELSE SubSeq(s, i, i)
GivenText ==
    /\ GivenRecord
    /\ Discriminator.t = "str"
    /\ TextField(Discriminator.s) # ""
    /\ Field(TextField(Discriminator.s)).t = "str"

\* C9: the quoted text of a prompt or a response (N = 100) and of a chunk
\* (N = 50) is the string with every newline made one space when its length
\* is at most N, and otherwise exactly its first N characters, newlines made
\* spaces, followed by '...'.
C9_TruncationLaw ==
    (Done /\ GivenText) =>
        LET kind == Discriminator.s
            s    == Field(TextField(kind)).s
            N    == TextLimit(kind)
            q    == Quoted(kind)
        IN  /\ result.path = "render"
            /\ Len(result.body) >= Len(TextSentence(kind)) + 2
            /\ result.body = TextSentence(kind) \o "\"" \o q \o "\""
            /\ IF Len(s) <= N
               THEN Len(q) = Len(s) /\ Flattened(q, s, Len(s))
               ELSE /\ Len(q) = N + 3
                    /\ Flattened(q, s, N)
                    /\ SubSeq(q, N + 1, N + 3) = "..."

\* A chunk one character over its limit with a newline before the cut:
\* 50 characters, the newline a space, and '...'.
C9_Witness ==
    /\ Done
    /\ GivenText
    /\ IsKind("response_chunk")
    /\ Len(Field("chunk").s) = ChunkLimit + 1
    /\ \E i \in 1..ChunkLimit : SubSeq(Field("chunk").s, i, i) = "\n"
    /\ Len(Quoted("response_chunk")) = ChunkLimit + 3
    /\ \A i \in 1..ChunkLimit : SubSeq(Quoted("response_chunk"), i, i) # "\n"

\* The sentence before the session id of each kind that shows it.
IdSentence(kind) ==
    CASE kind = "Stop"                    -> "Session stopped (id: "
      [] kind \in {"Start", "SessionStart"} -> "Session started (id: "
      [] kind = "SubagentStop"            -> "Subagent stopped (session: "
      [] kind = "SubagentStart"           -> "Subagent started (session: "
GivenId ==
    /\ GivenRecord
    /\ Discriminator.t = "str"
    /\ Discriminator.s \in IdKinds
    /\ HasField("session_id") => Field("session_id").t = "str"

\* C10: each of the five sentences that show the session id shows its first
\* min(8, len) characters followed by '...', whether the id is shorter than,
\* equal to or longer than 8 characters.
C10_SessionIdCut ==
    (Done /\ GivenId) =>
        LET shown == IdSentence(Discriminator.s) \o FirstEight(GivenSessionId) \o "...)"
        IN  /\ result.path = "render"
            /\ StartsWith(result.body, shown)
            /\ Discriminator.s \in {"SubagentStop", "SubagentStart"}
                  => result.body = shown
            /\ Discriminator.s = "Stop" => StartsWith(result.body, shown \o " in ")
            /\ Discriminator.s \in {"Start", "SessionStart"}
                  => \/ StartsWith(result.body, shown \o " in ")
                     \/ StartsWith(result.body, shown \o " via ")

\* An id of 7 characters: nothing cut, '...' appended.
C10_Witness ==
    /\ Done
    /\ GivenId
    /\ IsKind("Stop")
    /\ Len(GivenSessionId) = SessionIdLen - 1
    /\ StartsWith(result.body, "Session stopped (id: " \o GivenSessionId \o "...) in ")

\* C11: a call given the same raw text as an earlier call, on the same
\* instance or on another, returns the same record and the same description
\* body (the timestamp prefix aside), whatever calls came between; and no
\* call changes the handler table.
C11_SameTextSameResult ==
    /\ hook_handlers = HookHandlers
    /\ (Done /\ earlier.made /\ earlier.text = input_data)
          => /\ result.record = earlier.record
             /\ result.body = earlier.body

\* The same handled text given to two instances, with the same outcome.
C11_Witness ==
    /\ Done
    /\ earlier.made
    /\ earlier.text = input_data
    /\ earlier.instance # instance
    /\ result.handler = "_handle_error"
    /\ result.body = earlier.body
    /\ hook_handlers = HookHandlers

\* The process has ended; it got as far as printing a description.
Exited == mpc = "exited"
Printed == stdout # ""
HasMarker(x) == in_str("Error", x) \/ in_str("Invalid", x)

\* C12: whenever main printed a description, its exit status is 1 if and
\* only if the description holds 'Error' or 'Invalid' somewhere, and 0
\* otherwise.
C12_StatusByMarker ==
    (Exited /\ Printed)
        => /\ stdout = result.description \o "\n"
           /\ status = IF HasMarker(result.description) THEN 1 ELSE 0

\* C13: the description parse returns is a single line: it holds no newline
\* character, whatever the fields it echoes hold.
C13_SingleLine ==
    Done => ~HasNewline(result.description)

\* C14: on every path that is no failure (a rendered sentence, a missing
\* discriminator, an unknown kind) the record parse returns is the decoded
\* input, key for key and value for value, in the same order.
C14_RecordUntouched ==
    (Done /\ GivenRecord /\ result.path \in {"render", "missing", "unknown"})
        => /\ result.record = Given.val
           /\ Len(result.record.c) = Len(Given.val.c)
           /\ \A i \in 1..Len(Given.val.c) :
                 /\ result.record.c[i].k = Given.val.c[i].k
                 /\ result.record.c[i].v = Given.val.c[i].v

\* A record rendered through the fallback field: no 'hook' key was added.
C14_Witness ==
    /\ Done
    /\ GivenRecord
    /\ result.path = "render"
    /\ result.handler = "_handle_extended_event"
    /\ ~HasField("hook")
    /\ Field("session_id") = VStr(UUID)
    /\ result.record = Given.val
    /\ ~HasKey(result.record, "hook")

\* The record without one of its keys.
Without(data, key) == VDict(SelectSeq(data.c, LAMBDA p : p.k # key))
C15_Twin ==
    parse(hook_handlers, dumps(Without(Given.val, "tool_response")),
          DateTime(2025, 8, 2, 15, 30, 45))

\* C15: the description body of PostToolUse is exactly "Completed tool
\* '<tool_name>' execution"; it is the body of the same record without
\* tool_response, and no tool_response makes the call fail.
C15_ResponseNotShown ==
    (Done /\ GivenRecord /\ IsKind("PostToolUse"))
        => /\ result.path = "render"
           /\ result.exc = ""
           /\ result.body = "Completed tool '"
                            \o PyStr(IF HasField("tool_name") THEN Field("tool_name")
                                     ELSE VStr("unknown"))
                            \o "' execution"
           /\ result.body = C15_Twin.body
           /\ C15_Twin.path = "render"

\* A tool_response longer than 50 characters with a newline in it.
C15_Witness ==
    /\ Done
    /\ GivenRecord
    /\ IsKind("PostToolUse")
    /\ Field("tool_response").t = "str"
    /\ Len(Field("tool_response").s) > ChunkLimit
    /\ HasNewline(Field("tool_response").s)
    /\ result.body = "Completed tool 'Read' execution"

\* The decoded stdin text, and whether stdin gave nothing to work on.
OnlyWhitespace == \A i \in 1..Len(stdin.toks) : stdin.toks[i].k = "ws"
NoInput == mpc # "off" /\ (stdin.fails \/ OnlyWhitespace)

\* C17: when stdin is empty or only whitespace, or reading it raises, main
\* ends with status 1 and one 'Error' line on stderr, and nothing else
\* happens at any point of the run: parse is not called, stdout stays empty,
\* and the log file and its directory are neither created nor written, with
\* --log or without.
C17_NoInputNoEffect ==
    NoInput =>
        /\ mpc \in {"read", "exited"}
        /\ pc = "idle"
        /\ result = NoResult
        /\ stdout = ""
        /\ log_file = old_log
        /\ log_dir = old_dir
        /\ mpc = "read" => (stderr = "" /\ status = -1)
        /\ mpc = "exited" =>
              /\ status = 1
              /\ \E now \in Times :
                    stderr = "[" \o strftime(now) \o "] "
                             \o (IF stdin.fails THEN "Error reading input: Read error"
                                 ELSE "Error: No input received")
                             \o "\n"

\* Whitespace alone on stdin, --log given, no log file before or after.
C17_Witness ==
    /\ Exited
    /\ ~stdin.fails
    /\ Len(stdin.toks) > 0
    /\ OnlyWhitespace
    /\ argv.log # ""
    /\ ~old_log.exists
    /\ ~log_file.exists
    /\ status = 1
    /\ in_str("Error: No input received", stderr)

\* A run with --log in which no log operation failed so far: stderr is empty
\* (a run that got past reading stdin writes to stderr only on such a
\* failure).
LogGiven == argv.log # ""
NoFailure == stderr = ""
\* The earlier content is still there, at the start of the file.
KeepsOld ==
    /\ StartsWith(log_file.text, old_log.text)
    /\ old_log.exists => log_file.exists
\* The raw-input entry of this run, written at the clock reading now.
RawEntry(now) ==
    log_entry(raw_input, "", ~(argv.compact \/ argv.no_human_readable),
              argv.compact, now)
\* What the file holds after the earlier content and the entry.
AfterEntry(now) ==
    SubSeq(log_file.text, Len(old_log.text) + Len(RawEntry(now)) + 1,
           Len(log_file.text))
WhitespaceChars == {" ", "\n", "\t", "\r"}
\* t is d less its trailing whitespace.
Stripped(t, d) ==
    /\ StartsWith(d, t)
    /\ \A i \in (Len(t) + 1)..Len(d) : SubSeq(d, i, i) \in WhitespaceChars
    /\ Len(t) > 0 => SubSeq(t, Len(t), Len(t)) \notin WhitespaceChars
\* Before parse is called and before anything is printed, the file is the
\* earlier content and one entry; it is still so when the description has
\* been printed and the Output line is yet to be appended.
EntryFirst ==
    (LogGiven /\ NoFailure /\ mpc \in {"call", "parse", "log_output"})
        => /\ \E now \in Times : log_file.text = old_log.text \o RawEntry(now)
           /\ mpc = "call" => (pc = "idle" /\ result = NoResult /\ stdout = "")
           /\ mpc = "parse" => stdout = ""
           /\ mpc = "log_output" => stdout = result.description \o "\n"

C18_LogFailureContained ==
    (LogGiven /\ Exited /\ Len(raw_input) > 0)
        => /\ stdout = result.description \o "\n"
           /\ status = IF HasMarker(result.description) THEN 1 ELSE 0
           /\ ~in_str("Traceback", stderr)
           /\ stderr # "" => in_str("Warning: Failed to write to log file", stderr)

====
